---- MODULE Spec2Model ----
(***************************************************************************)
(* github_bot_api: the token suppliers (token.py) and GithubApp (app.py),  *)
(* the webhook signature (signature.py), accept_event (event.py), the      *)
(* Webhook dispatcher (webhook.py) and the Flask view (flask.py).          *)
(*                                                                         *)
(* Spec: threads call GithubApp.jwt, get_installation_token_supplier and   *)
(* installation_token.  Every `with lock:` block, every blocking call (JWT *)
(* signing, the requestor's HTTP POST) and the clock are separate steps,   *)
(* so that all interleavings of the threads are explored.                  *)
(* SpecFair: Spec with every thread that can take a step taking one.       *)
(* SpecWebhook: handlers are registered, events are dispatched by the      *)
(* program and by the Flask view, one loop iteration a step.               *)
(* SpecEvent: accept_event applied to each request of a bounded set.       *)
(* SpecSignature: compute_signature and check_signature applied to each    *)
(* payload, key and algorithm of a bounded set.                            *)
(***************************************************************************)
EXTENDS Integers, Sequences, FiniteSets, TLC

(***************************************************************************)
(* Bounds of the model.                                                    *)
(***************************************************************************)
NumThreads == 2
MaxCalls == 2

(***************************************************************************)
(* Program constants.                                                      *)
(***************************************************************************)
JwtExpiresIn == 600
JwtThreshold == 30
InstThreshold == 30
AppId == 42

Threads == 1..NumThreads
NoThread == 0
InstallationIds == {1, 2}

\* Supplier objects: object 0 is GithubApp._jwt_supplier, the others are
\* InstallationTokenSupplier instances allocated by get_installation_token_supplier.
JwtObj == 0
InstObjs == 1..(Cardinality(InstallationIds) + NumThreads)
Objs == {JwtObj} \cup InstObjs
NoObj == -1

\* The instants the clock (time.time()) is read at: the start, and the last
\* second before and the first second at which a JWT signed at the start has
\* reached its refresh threshold.
Instants == {0, JwtExpiresIn - JwtThreshold - 1, JwtExpiresIn - JwtThreshold}

\* What the requestor's POST can answer: a token string and an expires_at
\* timestamp with a numeric UTC offset (local wall-clock seconds, offset seconds),
\* or a JSON body without those keys (an API error message).
TokenStrings == {"ghs_a", "ghs_b"}
ExpiresAtValues ==
  { [local |-> 1, offset |-> 0],
    [local |-> 4200, offset |-> 3600] }
Responses ==
  [kind : {"ok"}, token : TokenStrings, expires_at : ExpiresAtValues]
    \cup {[kind |-> "error", token |-> "", expires_at |-> [local |-> 0, offset |-> 0]]}

PrivateKeys == {"pem_valid", "pem_invalid"}

VARIABLES
  now,                  \* time.time()
  private_key,          \* GithubApp.private_key
  appLock,              \* GithubApp._lock: the thread holding it, or NoThread
  installation_tokens,  \* GithubApp._installation_tokens: id -> object or NoObj
  installation_id,      \* InstallationTokenSupplier.installation_id of each object
  cached,               \* RefreshableTokenSupplier._cached_token of each object
  lock,                 \* RefreshableTokenSupplier._lock of each object
  pc,                   \* each thread's position
  op,                   \* the GithubApp operation each thread runs
  arg,                  \* its installation_id argument
  stack,                \* the supplier calls the thread is in, innermost last
  hdr,                  \* the auth header the thread passes to the requestor
  result,               \* what the thread's last call returned or raised
  calls,                \* number of calls started
  fetchLog,             \* history: the completed _new_token calls of each object
  reqLog                \* history: the requestor invocations for each installation id

tokenVars == <<now, private_key, appLock, installation_tokens, installation_id, cached,
               lock, pc, op, arg, stack, hdr, result, calls, fetchLog, reqLog>>

VARIABLES
  webhook,              \* the Webhook object, its dispatch call and the Flask view
  acceptance,           \* the accept_event call
  signatures            \* the compute_signature and check_signature calls

nonTokenVars == <<webhook, acceptance, signatures>>

vars == <<tokenVars, nonTokenVars>>

\* Where the program has constructed no Webhook and made no such call.
Unused == "unused"

secret == webhook.secret          \* Webhook.secret
handlers == webhook.handlers      \* Webhook.handlers
step == webhook.step              \* the position of the dispatch call in progress
event == webhook.event            \* the Event being dispatched
index == webhook.index            \* the position of `for handler in self.handlers`
matched == webhook.matched        \* dispatch's local variable
invoked == webhook.invoked        \* history: the handlers the dispatch call has invoked
returned == webhook.returned      \* what the dispatch call returned
logged == webhook.logged          \* what the dispatch call passed to logger.info
serving == webhook.serving        \* the position of the Flask view serving a request
dispatches == webhook.dispatches  \* history: the dispatch calls the view has made
response == webhook.response      \* what the view returned
listened == webhook.listened      \* history: the number of listen calls made

request == acceptance.request     \* the arguments of the accept_event call
accepted == acceptance.accepted   \* what the accept_event call returned or raised

signing == signatures.signing     \* the arguments of the compute_signature call
produced == signatures.produced   \* what the compute_signature call returned or raised
verdict == signatures.verdict     \* check_signature's payload, and what it did

(***************************************************************************)
(* TokenInfo (token.py:21-40).                                             *)
(***************************************************************************)
TokenInfo(exp, type, value) == [exp |-> exp, type |-> type, value |-> value]

\* _cached_token = None
None == [exp |-> 0, type |-> "None", value |-> <<"None">>]

auth_header(token) == <<token.type, token.value>>

\* jwt.encode(payload, private_key, algorithm='RS256'): the signed token carries
\* the claim set; signing fails for a key that is no RSA private key.
jwt_encode(payload) == <<"jwt", payload.iss, payload.iat, payload.exp>>

\* A claim set whose exp is the lifetime itself.
create_jwt_relative(app_id, expires_in) ==
  LET payload == [iss |-> app_id, iat |-> now, exp |-> expires_in]
  IN TokenInfo(now + expires_in, "Bearer", jwt_encode(payload))

create_jwt(app_id, expires_in) ==
  LET exp == now + expires_in
      payload == [iss |-> app_id, iat |-> now, exp |-> exp]
  IN TokenInfo(exp, "Bearer", jwt_encode(payload))

\* A conversion that drops the UTC offset.
timestamp_naive(expires_at) == expires_at.local

\* datetime.strptime(data['expires_at'], '%Y-%m-%dT%H:%M:%S%z').timestamp()
timestamp(expires_at) == expires_at.local - expires_at.offset

Threshold(o) == IF o = JwtObj THEN JwtThreshold ELSE InstThreshold

\* An expiry test that leaves the boundary out.
is_expired_strict(o, token) == (token.exp - now) < Threshold(o)

\* JwtSupplier._is_expired / InstallationTokenSupplier._is_expired
is_expired(o, token) == (token.exp - now) <= Threshold(o)

\* A check that forgets the expiry.
UsableIfCached(o) == cached[o] # None

\* The condition of RefreshableTokenSupplier.__call__ (token.py:84)
Usable(o) == cached[o] # None /\ ~is_expired(o, cached[o])

(***************************************************************************)
(* Frames and results.                                                     *)
(***************************************************************************)
\* A supplier call in progress: the object called; history: whether the cache
\* was unusable when the call began, the cached token its check read, the number
\* of _new_token invocations it has made, the instant of the check that led to
\* the invocation and the index in reqLog of the requestor invocation it has made.
Frame(o, usable) ==
  [sup |-> o, stale |-> ~usable, seen |-> None, n |-> 0, at |-> -1, req |-> 0]

Top(t) == stack[t][Len(stack[t])]
SetTop(t, f) == [stack[t] EXCEPT ![Len(stack[t])] = f]
Pop(t) == SubSeq(stack[t], 1, Len(stack[t]) - 1)

\* What a call handed to its caller: a TokenInfo, an exception, or a supplier.
\* history: obj is the supplier that was called, stale and n are its frame's.
NoResult ==
  [kind |-> "none", tok |-> None, obj |-> NoObj, stale |-> FALSE, n |-> 0]
Returned(f, tok) ==
  [kind |-> "token", tok |-> tok, obj |-> f.sup, stale |-> f.stale, n |-> f.n]
Raised(f) ==
  [kind |-> "raised", tok |-> None, obj |-> f.sup, stale |-> f.stale, n |-> f.n]
ReturnedSupplier(o) ==
  [kind |-> "supplier", tok |-> None, obj |-> o, stale |-> FALSE, n |-> 0]

\* History records.
Fetched(f, tok) == [at |-> f.at, tok |-> tok]
NoResponse == [kind |-> "pending", token |-> "", expires_at |-> [local |-> 0, offset |-> 0]]
RaisedResponse == [kind |-> "raised", token |-> "", expires_at |-> [local |-> 0, offset |-> 0]]
Requested(h) == [hdr |-> h, resp |-> NoResponse]

TokenInit ==
  /\ now = 0
  /\ private_key \in PrivateKeys
  /\ appLock = NoThread
  /\ installation_tokens = [i \in InstallationIds |-> NoObj]
  /\ installation_id = [o \in Objs |-> 0]
  /\ cached = [o \in Objs |-> None]
  /\ lock = [o \in Objs |-> NoThread]
  /\ pc = [t \in Threads |-> "idle"]
  /\ op = [t \in Threads |-> "none"]
  /\ arg = [t \in Threads |-> 0]
  /\ stack = [t \in Threads |-> <<>>]
  /\ hdr = [t \in Threads |-> <<>>]
  /\ result = [t \in Threads |-> NoResult]
  /\ calls = 0
  /\ fetchLog = [o \in Objs |-> <<>>]
  /\ reqLog = [i \in InstallationIds |-> <<>>]

(***************************************************************************)
(* threading.Lock                                                          *)
(***************************************************************************)
\* A lock that excludes nobody.
AcquireUnlocked(holder) == TRUE

\* `with lock:` enters only when no thread holds the lock.
CanAcquire(holder) == holder = NoThread

\* A `with lock:` block that keeps the lock when it is left.
release_never(l, o) == l

\* Leaving a `with lock:` block, by return or by exception, releases the lock.
release(l, o) == [l EXCEPT ![o] = NoThread]

\* An exception that leaves the locks held.
unwind_held(l, frames) == l

\* An exception propagating out of every supplier call the thread is in.
RECURSIVE unwind(_, _)
unwind(l, frames) ==
  IF frames = <<>> THEN l
  ELSE unwind(release(l, frames[Len(frames)].sup), SubSeq(frames, 1, Len(frames) - 1))

(***************************************************************************)
(* The clock.                                                              *)
(***************************************************************************)
Tick ==
  /\ \E n \in Instants : n > now /\ now' = n
  /\ UNCHANGED <<private_key, appLock, installation_tokens, installation_id, cached,
                 lock, pc, op, arg, stack, hdr, result, calls, fetchLog, reqLog>>
  /\ UNCHANGED nonTokenVars

(***************************************************************************)
(* GithubApp (app.py)                                                      *)
(***************************************************************************)
\* The threads are interchangeable: of the threads that have made no call yet,
\* the one with the least number makes the next first call.
MayCall(t) ==
  /\ pc[t] = "idle"
  /\ calls < MaxCalls
  /\ \A u \in Threads : u < t => op[u] # "none"

\* The jwt property: return self._jwt_supplier()
Jwt(t) ==
  /\ MayCall(t)
  /\ calls' = calls + 1
  /\ op' = [op EXCEPT ![t] = "jwt"]
  /\ arg' = [arg EXCEPT ![t] = 0]
  /\ stack' = [stack EXCEPT ![t] = <<Frame(JwtObj, Usable(JwtObj))>>]
  /\ pc' = [pc EXCEPT ![t] = "acquire"]
  /\ result' = [result EXCEPT ![t] = NoResult]
  /\ UNCHANGED <<now, private_key, appLock, installation_tokens, installation_id,
                 cached, lock, hdr, fetchLog, reqLog>>
  /\ UNCHANGED nonTokenVars

BeginCall(t, name, id) ==
  /\ MayCall(t)
  /\ calls' = calls + 1
  /\ op' = [op EXCEPT ![t] = name]
  /\ arg' = [arg EXCEPT ![t] = id]
  /\ pc' = [pc EXCEPT ![t] = "app_lock"]
  /\ result' = [result EXCEPT ![t] = NoResult]
  /\ UNCHANGED <<now, private_key, appLock, installation_tokens, installation_id,
                 cached, lock, stack, hdr, fetchLog, reqLog>>
  /\ UNCHANGED nonTokenVars

get_installation_token_supplier(t, id) == BeginCall(t, "supplier", id)

installation_token(t, id) == BeginCall(t, "token", id)

\* with self._lock:
AcquireAppLock(t) ==
  /\ pc[t] = "app_lock"
  /\ CanAcquire(appLock)
  /\ appLock' = t
  /\ pc' = [pc EXCEPT ![t] = "setdefault"]
  /\ UNCHANGED <<now, private_key, installation_tokens, installation_id, cached, lock,
                 op, arg, stack, hdr, result, calls, fetchLog, reqLog>>
  /\ UNCHANGED nonTokenVars

\* A plain assignment d[key] = default.
setdefault_overwrite(d, key, default) == [d EXCEPT ![key] = default]

\* dict.setdefault(key, default)
setdefault(d, key, default) ==
  IF d[key] = NoObj THEN [d EXCEPT ![key] = default] ELSE d

\* An object no variable refers to: the instance the constructor call returns.
Referenced(o) ==
  \/ \E i \in InstallationIds : installation_tokens[i] = o
  \/ \E t \in Threads :
       \/ result[t].obj = o
       \/ \E k \in DOMAIN stack[t] : stack[t][k].sup = o
NewObj ==
  CHOOSE o \in InstObjs :
    ~Referenced(o) /\ \A p \in InstObjs : p < o => Referenced(p)

\* return self._installation_tokens.setdefault(installation_id,
\*   InstallationTokenSupplier(self._jwt_supplier, installation_id, self.__requestor))
\* and the end of the `with` block.  An instance that setdefault does not keep
\* is unreachable at once and leaves no trace in the state.
SetDefault(t) ==
  /\ pc[t] = "setdefault"
  /\ LET o == NewObj
         d == setdefault(installation_tokens, arg[t], o)
         kept == d[arg[t]]
     IN /\ installation_tokens' = d
        /\ IF kept = o
           THEN /\ installation_id' = [installation_id EXCEPT ![o] = arg[t]]
                /\ cached' = [cached EXCEPT ![o] = None]
                /\ lock' = [lock EXCEPT ![o] = NoThread]
                /\ fetchLog' = [fetchLog EXCEPT ![o] = <<>>]
           ELSE UNCHANGED <<installation_id, cached, lock, fetchLog>>
        /\ IF op[t] = "supplier"
           THEN /\ pc' = [pc EXCEPT ![t] = "idle"]
                /\ result' = [result EXCEPT ![t] = ReturnedSupplier(kept)]
                /\ UNCHANGED stack
           ELSE /\ pc' = [pc EXCEPT ![t] = "acquire"]
                /\ stack' = [stack EXCEPT ![t] =
                               <<Frame(kept, kept # o /\ Usable(kept))>>]
                /\ UNCHANGED result
  /\ appLock' = NoThread
  /\ UNCHANGED <<now, private_key, op, arg, hdr, calls, reqLog>>
  /\ UNCHANGED nonTokenVars

(***************************************************************************)
(* RefreshableTokenSupplier.__call__ (token.py:82-88)                      *)
(***************************************************************************)
\* with self._lock:
Acquire(t) ==
  /\ pc[t] = "acquire"
  /\ CanAcquire(lock[Top(t).sup])
  /\ lock' = [lock EXCEPT ![Top(t).sup] = t]
  /\ pc' = [pc EXCEPT ![t] = "check"]
  /\ UNCHANGED <<now, private_key, appLock, installation_tokens, installation_id,
                 cached, op, arg, stack, hdr, result, calls, fetchLog, reqLog>>
  /\ UNCHANGED nonTokenVars

\* `return self._cached_token` and the end of the `with` block, in a call made
\* by a GithubApp operation: the token goes to the operation's caller.
ReturnToCaller(t, tok) ==
  /\ pc' = [pc EXCEPT ![t] = "idle"]
  /\ stack' = [stack EXCEPT ![t] = <<>>]
  /\ hdr' = [hdr EXCEPT ![t] = <<>>]
  /\ result' = [result EXCEPT ![t] = Returned(Top(t), tok)]
  /\ lock' = release(lock, Top(t).sup)

\* A _new_token that keeps the JWT supplier's lock during the request.
ReturnToNewTokenLocked(t, tok) ==
  LET outer == stack[t][Len(stack[t]) - 1]
      id == installation_id[outer.sup]
  IN /\ pc' = [pc EXCEPT ![t] = "request"]
     /\ stack' = [stack EXCEPT ![t] =
                    [Pop(t) EXCEPT ![Len(stack[t]) - 1].req = Len(reqLog[id]) + 1]]
     /\ hdr' = [hdr EXCEPT ![t] = auth_header(tok)]
     /\ reqLog' = [reqLog EXCEPT ![id] = Append(@, Requested(auth_header(tok)))]
     /\ lock' = lock

\* The same in the call self.app_jwt() of InstallationTokenSupplier._new_token
\* (token.py:145): the token's auth_header and self.installation_id are the
\* arguments of self.requestor, which is invoked next.
ReturnToNewToken(t, tok) ==
  LET outer == stack[t][Len(stack[t]) - 1]
      id == installation_id[outer.sup]
  IN /\ pc' = [pc EXCEPT ![t] = "request"]
     /\ stack' = [stack EXCEPT ![t] =
                    [Pop(t) EXCEPT ![Len(stack[t]) - 1].req = Len(reqLog[id]) + 1]]
     /\ hdr' = [hdr EXCEPT ![t] = auth_header(tok)]
     /\ reqLog' = [reqLog EXCEPT ![id] = Append(@, Requested(auth_header(tok)))]
     /\ lock' = release(lock, Top(t).sup)

Return(t, tok) ==
  IF Len(stack[t]) = 1
  THEN ReturnToCaller(t, tok) /\ UNCHANGED reqLog
  ELSE ReturnToNewToken(t, tok) /\ UNCHANGED result

\* A supplier that answers an exception of _new_token by invoking it again.
RaiseRetry(t) ==
  /\ pc' = [pc EXCEPT ![t] = "new_token"]
  /\ stack' = [stack EXCEPT ![t] = <<[stack[t][1] EXCEPT !.n = @ + 1]>>]
  /\ lock' = unwind(lock, Tail(stack[t]))
  /\ UNCHANGED <<hdr, result>>

\* An exception raised in _new_token leaves every `with` block of the thread
\* and reaches the caller of the GithubApp operation.
Raise(t) ==
  /\ pc' = [pc EXCEPT ![t] = "idle"]
  /\ stack' = [stack EXCEPT ![t] = <<>>]
  /\ hdr' = [hdr EXCEPT ![t] = <<>>]
  /\ result' = [result EXCEPT ![t] = Raised(stack[t][1])]
  /\ lock' = unwind(lock, stack[t])

\* if self._cached_token is not None and not self._is_expired(self._cached_token):
\*   return self._cached_token
\* self._cached_token = self._new_token()      (the invocation)
Check(t) ==
  /\ pc[t] = "check"
  /\ IF Usable(Top(t).sup)
     THEN Return(t, cached[Top(t).sup])
     ELSE /\ pc' = [pc EXCEPT ![t] = "new_token"]
          /\ stack' = [stack EXCEPT ![t] =
                         SetTop(t, [Top(t) EXCEPT !.seen = cached[Top(t).sup],
                                                   !.n = @ + 1, !.at = now])]
          /\ UNCHANGED <<lock, hdr, result, reqLog>>
  /\ UNCHANGED <<now, private_key, appLock, installation_tokens, installation_id,
                 cached, op, arg, calls, fetchLog>>
  /\ UNCHANGED nonTokenVars

\* The _new_token calls of the thread's frames fail together: one history
\* entry for each.
RECURSIVE logRaised(_, _)
logRaised(log, frames) ==
  IF frames = <<>> THEN log
  ELSE LET f == frames[Len(frames)]
       IN logRaised([log EXCEPT ![f.sup] = Append(@, Fetched(f, None))],
                    SubSeq(frames, 1, Len(frames) - 1))

(***************************************************************************)
(* JwtSupplier._new_token (token.py:114-116)                               *)
(***************************************************************************)
JwtNewToken(t) ==
  /\ pc[t] = "new_token"
  /\ Top(t).sup = JwtObj
  /\ IF private_key = "pem_valid"
     THEN LET tok == create_jwt(AppId, JwtExpiresIn)
          IN /\ cached' = [cached EXCEPT ![JwtObj] = tok]
             /\ fetchLog' = [fetchLog EXCEPT ![JwtObj] = Append(@, Fetched(Top(t), tok))]
             /\ Return(t, tok)
     ELSE /\ Raise(t)
          /\ fetchLog' = logRaised(fetchLog, stack[t])
          /\ UNCHANGED <<cached, reqLog>>
  /\ UNCHANGED <<now, private_key, appLock, installation_tokens, installation_id,
                 op, arg, calls>>
  /\ UNCHANGED nonTokenVars

(***************************************************************************)
(* InstallationTokenSupplier._new_token (token.py:143-147)                 *)
(***************************************************************************)
\* An installation supplier that takes itself for its app_jwt.
app_jwt_own(o) == o

\* InstallationTokenSupplier.app_jwt of the object o: the self._jwt_supplier
\* that get_installation_token_supplier passes to the constructor (app.py:177)
app_jwt(o) == JwtObj

\* self.app_jwt(): the call of the app's JwtSupplier
AppJwt(t) ==
  /\ pc[t] = "new_token"
  /\ Top(t).sup # JwtObj
  /\ stack' = [stack EXCEPT ![t] = Append(@, Frame(app_jwt(Top(t).sup),
                                                    Usable(app_jwt(Top(t).sup))))]
  /\ pc' = [pc EXCEPT ![t] = "acquire"]
  /\ UNCHANGED <<now, private_key, appLock, installation_tokens, installation_id,
                 cached, lock, op, arg, hdr, result, calls, fetchLog, reqLog>>
  /\ UNCHANGED nonTokenVars

\* A fetch whose token is made to outlast the threshold.
ParseResponseFresh(data) ==
  LET exp == timestamp(data.expires_at)
  IN TokenInfo(IF exp - now <= InstThreshold THEN now + InstThreshold + 1 ELSE exp,
               "token", data.token)

\* TokenInfo(int(expires_at.timestamp()), 'token', data['token'])
ParseResponse(data) == TokenInfo(timestamp(data.expires_at), "token", data.token)

\* The requestor returns the JSON payload `data`; a payload without the keys
\* 'expires_at' and 'token' raises KeyError.
RequestorReturns(t, data) ==
  /\ pc[t] = "request"
  /\ reqLog' = [reqLog EXCEPT ![installation_id[Top(t).sup]][Top(t).req].resp = data]
  /\ IF data.kind = "ok"
     THEN LET tok == ParseResponse(data)
          IN /\ cached' = [cached EXCEPT ![Top(t).sup] = tok]
             /\ fetchLog' = [fetchLog EXCEPT ![Top(t).sup] = Append(@, Fetched(Top(t), tok))]
             /\ ReturnToCaller(t, tok)
     ELSE /\ Raise(t)
          /\ fetchLog' = logRaised(fetchLog, stack[t])
          /\ UNCHANGED cached
  /\ UNCHANGED <<now, private_key, appLock, installation_tokens, installation_id,
                 op, arg, calls>>
  /\ UNCHANGED nonTokenVars

\* The requestor raises (requests.post: connection error, timeout).
RequestorRaises(t) ==
  /\ pc[t] = "request"
  /\ reqLog' = [reqLog EXCEPT ![installation_id[Top(t).sup]][Top(t).req].resp =
                                 RaisedResponse]
  /\ Raise(t)
  /\ fetchLog' = logRaised(fetchLog, stack[t])
  /\ UNCHANGED <<now, private_key, appLock, installation_tokens, installation_id,
                 cached, op, arg, calls>>
  /\ UNCHANGED nonTokenVars

\* GithubClientSettings.make_client (app.py:50-60): the arguments the
\* github.Github client is built with.
make_client(login_or_token, jwt) == [login_or_token |-> login_or_token, jwt |-> jwt]

\* The end of GithubApp.installation_client (app.py:211-213), for the TokenInfo
\* that self.installation_token(installation_id) returned.
installation_client(token) == make_client(token.value, "None")

Next ==
  \/ Tick
  \/ \E t \in Threads :
       \/ Jwt(t)
       \/ \E id \in InstallationIds : get_installation_token_supplier(t, id)
       \/ \E id \in InstallationIds : installation_token(t, id)
       \/ AcquireAppLock(t)
       \/ SetDefault(t)
       \/ Acquire(t)
       \/ Check(t)
       \/ JwtNewToken(t)
       \/ AppJwt(t)
       \/ \E data \in Responses : RequestorReturns(t, data)
       \/ RequestorRaises(t)

(***************************************************************************)
(* Strings.  A str is the sequence of its characters; None is a value that *)
(* is no str.                                                              *)
(***************************************************************************)
NoneStr == <<"None">>

\* A test that takes only None as false.
IsNone(x) == x = NoneStr

\* `not x` for an Optional[str]: None and the empty string are false.
Falsy(x) == x = NoneStr \/ x = <<>>

pull_request == <<"p", "u", "l", "l", "_", "r", "e", "q", "u", "e", "s", "t">>
push == <<"p", "u", "s", "h">>
EventNames == {pull_request, push}

\* The patterns handlers are registered with: an event name and `*`.
Patterns == {pull_request, <<"*">>}

\* A matcher that accepts every name.
fnmatch_any(name, pat) == TRUE

\* fnmatch.fnmatch(name, pat) for patterns of literal characters, `*` and `?`
\* (os.path.normcase is the identity on POSIX).
RECURSIVE fnmatch(_, _)
fnmatch(name, pat) ==
  IF pat = <<>> THEN name = <<>>
  ELSE IF Head(pat) = "*"
       THEN fnmatch(name, Tail(pat)) \/ (name # <<>> /\ fnmatch(Tail(name), pat))
  ELSE IF Head(pat) = "?"
       THEN name # <<>> /\ fnmatch(Tail(name), Tail(pat))
  ELSE name # <<>> /\ Head(name) = Head(pat) /\ fnmatch(Tail(name), Tail(pat))

(***************************************************************************)
(* Event (event.py:18-39)                                                  *)
(***************************************************************************)
Event(name, delivery_id, signature, user_agent, payload) ==
  [name |-> name, delivery_id |-> delivery_id, signature |-> signature,
   user_agent |-> user_agent, payload |-> payload]

NoEvent == Event(NoneStr, NoneStr, NoneStr, NoneStr, "None")

\* The events user code passes to Webhook.dispatch itself.
Events ==
  {Event(n, <<"d", "1">>, NoneStr, <<"u", "a">>, "{}") : n \in EventNames}

(***************************************************************************)
(* Bytes and characters.  A bytes object is the sequence of its byte       *)
(* values.                                                                 *)
(***************************************************************************)
\* The non-ASCII character of the model (e with an acute accent).
NonAscii == "e'"

IsAscii(str) == \A k \in DOMAIN str : str[k] # NonAscii

\* ord(c) of the ASCII characters that secrets are written with.
ord(c) ==
  CASE c = "k" -> 107
    [] c = "1" -> 49
    [] c = "2" -> 50

\* str.encode('ascii'): raises UnicodeEncodeError for a non-ASCII character.
encode_ascii(str) ==
  IF IsAscii(str)
  THEN [raised |-> "", value |-> [k \in DOMAIN str |-> ord(str[k])]]
  ELSE [raised |-> "UnicodeEncodeError", value |-> <<>>]

HexDigits ==
  <<"0", "1", "2", "3", "4", "5", "6", "7", "8", "9", "a", "b", "c", "d", "e", "f">>

\* bytes.hex(): two lower-case hexadecimal digits for each byte.
RECURSIVE hex(_)
hex(bytes) ==
  IF bytes = <<>> THEN <<>>
  ELSE <<HexDigits[(Head(bytes) \div 16) + 1], HexDigits[(Head(bytes) % 16) + 1]>>
         \o hex(Tail(bytes))

(***************************************************************************)
(* signature.py                                                            *)
(***************************************************************************)
SupportedAlgos == {"sha1", "sha256"}

\* f'{algo}='
algo_prefix(algo) ==
  IF algo = "sha1" THEN <<"s", "h", "a", "1", "=">>
  ELSE <<"s", "h", "a", "2", "5", "6", "=">>

\* hashlib's digest_size of the algorithm, in bytes.
digest_size(algo) == IF algo = "sha1" THEN 20 ELSE 32

\* The key without its trailing zero bytes: HMAC pads the key with zero bytes
\* to the block size of the hash.
RECURSIVE unpadded(_)
unpadded(key) ==
  IF key # <<>> /\ key[Len(key)] = 0 THEN unpadded(SubSeq(key, 1, Len(key) - 1)) ELSE key

\* A digest input that leaves the message out.
hmac_input_keyonly(key, payload) == <<Len(unpadded(key))>> \o unpadded(key)

\* What the digest is taken of: the padded key and the message, each with its
\* length.
hmac_input(key, payload) ==
  <<Len(unpadded(key))>> \o unpadded(key) \o <<Len(payload)>> \o payload

\* hmac.new(secret, payload, algo).digest(), as an ideal keyed digest: a byte
\* string of the algorithm's digest size that is a function of the padded key,
\* the message and the algorithm, and differs for different messages (the
\* input is packed into the leading bytes; this is one-to-one while it fits
\* the digest size).
hmac_digest(key, payload, algo) ==
  LET packed == hmac_input(key, payload)
      salt == digest_size(algo)
  IN [i \in 1..digest_size(algo) |->
        IF i <= Len(packed) THEN (packed[i] + salt + i) % 256 ELSE (salt + i) % 256]

\* compute_signature (signature.py:9-21)
compute_signature(payload, key, algo) ==
  IF algo \notin SupportedAlgos
  THEN [raised |-> "ValueError", value |-> <<>>]
  ELSE [raised |-> "", value |-> algo_prefix(algo) \o hex(hmac_digest(key, payload, algo))]

\* A comparison that finds every two strings equal.
compare_always(a, b) == [raised |-> "", value |-> TRUE]

\* hmac.compare_digest(a, b) of two str: TypeError unless both are ASCII.
compare_digest(a, b) ==
  IF IsAscii(a) /\ IsAscii(b)
  THEN [raised |-> "", value |-> a = b]
  ELSE [raised |-> "TypeError", value |-> FALSE]

\* What a check_signature call did: returned None (raised = ""), or raised.
Checked(sig, algo, raised, computed) ==
  [sig |-> sig, algo |-> algo, raised |-> raised, computed |-> computed]

\* check_signature (signature.py:24-33)
check_signature(sig, payload, key, algo) ==
  LET computed == compute_signature(payload, key, algo)
  IN IF computed.raised # ""
     THEN Checked(sig, algo, computed.raised, <<>>)
     ELSE LET equal == compare_digest(sig, computed.value)
          IN IF equal.raised # "" THEN Checked(sig, algo, equal.raised, computed.value)
             ELSE IF ~equal.value
                  THEN Checked(sig, algo, "SignatureMismatchException", computed.value)
                  ELSE Checked(sig, algo, "", computed.value)

(***************************************************************************)
(* get_mime_components (utils.py:5-26)                                     *)
(***************************************************************************)
\* str.split(sep): the pieces between the separators.
RECURSIVE split(_, _)
split(str, sep) ==
  IF \A k \in DOMAIN str : str[k] # sep THEN <<str>>
  ELSE LET k == CHOOSE j \in DOMAIN str : str[j] = sep /\ \A i \in 1..(j - 1) : str[i] # sep
       IN <<SubSeq(str, 1, k - 1)>> \o split(SubSeq(str, k + 1, Len(str)), sep)

\* str.strip(): without the leading and trailing whitespace.
RECURSIVE strip(_)
strip(str) ==
  IF str = <<>> THEN str
  ELSE IF Head(str) = " " THEN strip(Tail(str))
  ELSE IF str[Len(str)] = " " THEN strip(SubSeq(str, 1, Len(str) - 1))
  ELSE str

\* str.partition('=')[::2]: what is before and after the first `=`.
partition(str) ==
  LET k == CHOOSE j \in DOMAIN str : str[j] = "=" /\ \A i \in 1..(j - 1) : str[i] # "="
  IN <<SubSeq(str, 1, k - 1), SubSeq(str, k + 1, Len(str))>>

get_mime_components(mime) ==
  LET parts == split(mime, ";")
      parameter(part) ==
        IF \A k \in DOMAIN part : part[k] # "=" THEN <<part, <<>>>> ELSE partition(part)
  IN IF strip(parts[1]) = <<>>
     THEN [raised |-> "ValueError", mime_type |-> <<>>, parameters |-> <<>>]
     ELSE [raised |-> "", mime_type |-> strip(parts[1]),
           parameters |-> [k \in 1..(Len(parts) - 1) |-> parameter(parts[k + 1])]]

\* dict(parameters).get(key, default): the value of the last pair with the key.
RECURSIVE dict_get(_, _, _)
dict_get(parameters, key, default) ==
  IF parameters = <<>> THEN default
  ELSE LET last == parameters[Len(parameters)]
       IN IF last[1] = key THEN last[2]
          ELSE dict_get(SubSeq(parameters, 1, Len(parameters) - 1), key, default)

(***************************************************************************)
(* Decoding the body: bytes.decode(encoding) and json.loads                *)
(***************************************************************************)
UTF8 == <<"U", "T", "F", "-", "8">>
latin1 == <<"l", "a", "t", "i", "n", "-", "1">>

\* The characters of the bytes bodies are written with; 0xE9 is e with an
\* acute accent in latin-1 and no valid sequence in UTF-8.
chr(b) ==
  CASE b = 123 -> "{"
    [] b = 125 -> "}"
    [] b = 91 -> "["
    [] b = 93 -> "]"
    [] b = 233 -> NonAscii

\* raw_body.decode(encoding)
decode(bytes, encoding) ==
  IF encoding = UTF8
  THEN IF \A k \in DOMAIN bytes : bytes[k] < 128
       THEN [raised |-> "", value |-> [k \in DOMAIN bytes |-> chr(bytes[k])]]
       ELSE [raised |-> "UnicodeDecodeError", value |-> <<>>]
  ELSE IF encoding = latin1
  THEN [raised |-> "", value |-> [k \in DOMAIN bytes |-> chr(bytes[k])]]
  ELSE [raised |-> "LookupError", value |-> <<>>]

\* json.loads of a text of brackets and braces: an empty object, or an array
\* of at most one such value.
RECURSIVE json_valid(_)
json_valid(text) ==
  \/ text = <<"{", "}">>
  \/ /\ Len(text) >= 2
     /\ Head(text) = "["
     /\ text[Len(text)] = "]"
     /\ Len(text) = 2 \/ json_valid(SubSeq(text, 2, Len(text) - 1))

json_loads(text) ==
  IF json_valid(text)
  THEN [raised |-> "", value |-> IF Head(text) = "{" THEN "{}" ELSE "[]"]
  ELSE [raised |-> "JSONDecodeError", value |-> "None"]

(***************************************************************************)
(* accept_event (event.py:42-89)                                           *)
(***************************************************************************)
application_json ==
  <<"a", "p", "p", "l", "i", "c", "a", "t", "i", "o", "n", "/", "j", "s", "o", "n">>
encoding_key == <<"e", "n", "c", "o", "d", "i", "n", "g">>

\* The headers accept_event reads, by the local variable each is read into.
Headers(event_name, delivery_id, signature_1, signature_256, user_agent, content_type) ==
  [event_name |-> event_name, delivery_id |-> delivery_id,
   signature_1 |-> signature_1, signature_256 |-> signature_256,
   user_agent |-> user_agent, content_type |-> content_type]

\* What a call of accept_event did: returned an Event (raised = "") or raised;
\* history: the check_signature calls it made.
Accepted(e, checks) == [raised |-> "", event |-> e, checks |-> checks]
Rejected(exception, checks) == [raised |-> exception, event |-> NoEvent, checks |-> checks]

\* No call of accept_event has been made.
Pending == Rejected("pending", <<>>)

\* `a or b` of two Optional[str]
or(a, b) == IF Falsy(a) THEN b ELSE a

\* An Event that records the SHA-1 header first.
signature_sha1_first(signature_256, signature_1) == or(signature_1, signature_256)

\* The third argument of Event(...): signature_256 or signature_1 (event.py:86)
signature_of_event(signature_256, signature_1) == or(signature_256, signature_1)

\* A body of accept_event that verifies the signature before it looks at the
\* content type.
accept_verify_first(h, raw_body, webhook_secret) ==
  LET mime == get_mime_components(h.content_type)
      encoding == dict_get(mime.parameters, encoding_key, UTF8)
      key == encode_ascii(webhook_secret)
      checks ==
        IF webhook_secret = NoneStr \/ key.raised # "" THEN <<>>
        ELSE IF ~Falsy(h.signature_256)
        THEN <<check_signature(h.signature_256, raw_body, key.value, "sha256")>>
        ELSE IF ~Falsy(h.signature_1)
        THEN <<check_signature(h.signature_1, raw_body, key.value, "sha1")>>
        ELSE <<>>
      text == decode(raw_body, encoding)
      payload == json_loads(text.value)
  IN IF webhook_secret # NoneStr /\ key.raised # "" THEN Rejected(key.raised, <<>>)
     ELSE IF webhook_secret # NoneStr /\ checks = <<>> THEN Rejected("RuntimeError", <<>>)
     ELSE IF checks # <<>> /\ checks[1].raised # "" THEN Rejected(checks[1].raised, checks)
     ELSE IF mime.raised # "" THEN Rejected(mime.raised, checks)
     ELSE IF mime.mime_type # application_json THEN Rejected("InvalidRequest", checks)
     ELSE IF text.raised # "" THEN Rejected(text.raised, checks)
     ELSE IF payload.raised # "" THEN Rejected(payload.raised, checks)
     ELSE Accepted(Event(h.event_name, h.delivery_id,
                         signature_of_event(h.signature_256, h.signature_1),
                         h.user_agent, payload.value),
                   checks)

\* The body of accept_event after the two InvalidRequest checks on the headers.
accept_checked(h, raw_body, webhook_secret) ==
  LET mime == get_mime_components(h.content_type)
      encoding == dict_get(mime.parameters, encoding_key, UTF8)
      key == encode_ascii(webhook_secret)
      checks ==
        IF webhook_secret = NoneStr \/ key.raised # "" THEN <<>>
        ELSE IF ~Falsy(h.signature_256)
        THEN <<check_signature(h.signature_256, raw_body, key.value, "sha256")>>
        ELSE IF ~Falsy(h.signature_1)
        THEN <<check_signature(h.signature_1, raw_body, key.value, "sha1")>>
        ELSE <<>>
      text == decode(raw_body, encoding)
      payload == json_loads(text.value)
  IN IF mime.raised # "" THEN Rejected(mime.raised, <<>>)
     ELSE IF mime.mime_type # application_json THEN Rejected("InvalidRequest", <<>>)
     ELSE IF webhook_secret # NoneStr /\ key.raised # "" THEN Rejected(key.raised, <<>>)
     ELSE IF webhook_secret # NoneStr /\ checks = <<>> THEN Rejected("RuntimeError", <<>>)
     ELSE IF checks # <<>> /\ checks[1].raised # "" THEN Rejected(checks[1].raised, checks)
     ELSE IF text.raised # "" THEN Rejected(text.raised, checks)
     ELSE IF payload.raised # "" THEN Rejected(payload.raised, checks)
     ELSE Accepted(Event(h.event_name, h.delivery_id,
                         signature_of_event(h.signature_256, h.signature_1),
                         h.user_agent, payload.value),
                   checks)

\* An accept_event without the two checks on the headers.
accept_unchecked(h, raw_body, webhook_secret) ==
  accept_checked(h, raw_body, webhook_secret)

accept_event(h, raw_body, webhook_secret) ==
  IF Falsy(h.event_name) \/ Falsy(h.delivery_id) \/ Falsy(h.user_agent)
       \/ Falsy(h.content_type)
  THEN Rejected("InvalidRequest", <<>>)
  ELSE IF webhook_secret # NoneStr /\ ~(~Falsy(h.signature_1) \/ ~Falsy(h.signature_256))
  THEN Rejected("InvalidRequest", <<>>)
  ELSE accept_checked(h, raw_body, webhook_secret)

(***************************************************************************)
(* Webhook (webhook.py)                                                    *)
(***************************************************************************)
MaxHandlers == 3

EventHandler(pat, func) == [event |-> pat, func |-> func]

\* The handler functions: what a call of the function does.
HandlerFuncs == {"return True", "return False", "return None", "raise"}

\* handler.func(event): the value returned, or "raise"
call(func) ==
  CASE func = "return True" -> "True"
    [] func = "return False" -> "False"
    [] func = "return None" -> "None"
    [] func = "raise" -> "raise"

\* The truth value `if` takes of a value.
bool(v) == v = "True"

WebhookSecrets == {NoneStr, <<"k", "1">>}

\* No response: the view has not returned.
NotReturned == [body |-> <<"None">>, status |-> 0]

\* Webhook(secret): no handler, no dispatch call, no request served.
WebhookInit ==
  webhook \in {[secret |-> s, handlers |-> <<>>, step |-> "idle", event |-> NoEvent,
                index |-> 0, matched |-> FALSE, invoked |-> <<>>,
                returned |-> "pending", logged |-> "", serving |-> "no",
                dispatches |-> 0, response |-> NotReturned, listened |-> 0] :
                 s \in WebhookSecrets}

\* No call of dispatch is in progress and none has returned.
no_dispatch(w) ==
  [w EXCEPT !.step = "idle", !.event = NoEvent, !.index = 0, !.matched = FALSE,
            !.invoked = <<>>, !.returned = "pending", !.logged = ""]

\* No request is being served by the Flask view.
no_view(w) == [w EXCEPT !.serving = "no", !.dispatches = 0, !.response = NotReturned]

\* A list that takes an item only if it does not hold it yet.
append_unique(list, item) ==
  IF \E k \in DOMAIN list : list[k] = item THEN list ELSE Append(list, item)

\* list.append(item)
append(list, item) == Append(list, item)

\* self.handlers.append(EventHandler(event, func)), called while neither
\* dispatch nor the view is running; what earlier calls returned is no longer
\* at hand.
listen(pat, func) ==
  /\ step # "loop"
  /\ serving # "dispatch"
  /\ listened < MaxHandlers
  /\ webhook' = [no_view(no_dispatch(webhook))
                   EXCEPT !.handlers = append(handlers, EventHandler(pat, func)),
                          !.listened = listened + 1]
  /\ acceptance' = [acceptance EXCEPT !.accepted = Pending]
  /\ UNCHANGED <<tokenVars, signatures>>

\* The entry of dispatch(event): matched = False, and the for loop begins.
begin_dispatch(w, e) ==
  [w EXCEPT !.step = "loop", !.event = e, !.index = 1, !.matched = FALSE,
            !.invoked = <<>>, !.returned = "pending", !.logged = ""]

\* webhook.dispatch(event), called by the program itself
dispatch(e) ==
  /\ step # "loop"
  /\ serving # "dispatch"
  /\ webhook' = no_view(begin_dispatch(webhook, e))
  /\ acceptance' = [acceptance EXCEPT !.accepted = Pending]
  /\ UNCHANGED <<tokenVars, signatures>>

\* `return matched` after the loop (webhook.py:72)
LoopEnds(m) == IF m THEN "True" ELSE "False"

\* One iteration of `for handler in self.handlers` (webhook.py:63-67)
Iterate ==
  /\ step = "loop"
  /\ index <= Len(handlers)
  /\ LET handler == handlers[index]
     IN IF fnmatch(event.name, handler.event)
        THEN LET v == call(handler.func)
                 w == [webhook EXCEPT
                         !.matched = TRUE,
                         !.invoked = Append(invoked, [index |-> index, value |-> v])]
             IN IF v = "raise"
                THEN webhook' = [w EXCEPT !.step = "returned", !.returned = "raised"]
                ELSE IF bool(v)
                THEN webhook' = [w EXCEPT !.step = "returned", !.returned = "True"]
                ELSE webhook' = [w EXCEPT !.index = index + 1]
        ELSE webhook' = [webhook EXCEPT !.index = index + 1]
  /\ UNCHANGED <<tokenVars, acceptance, signatures>>

\* A diagnostic with the two words exchanged.
diagnostic_swapped(m) == IF m THEN "unmatched" ELSE "unhandled"

\* {"unhandled" if matched else "unmatched"} (webhook.py:69)
diagnostic(m) == IF m THEN "unhandled" ELSE "unmatched"

\* The else clause of the for loop (webhook.py:68-70) and `return matched`
Exhausted ==
  /\ step = "loop"
  /\ index > Len(handlers)
  /\ webhook' = [webhook EXCEPT
                   !.logged = diagnostic(matched),
                   !.returned = LoopEnds(matched),
                   !.step = "returned"]
  /\ UNCHANGED <<tokenVars, acceptance, signatures>>

(***************************************************************************)
(* The Flask view (flask.py:38-44)                                         *)
(***************************************************************************)
\* The requests posted to the view, as flask.request.headers and
\* flask.request.get_data(): for either event name, with and without the
\* X-GitHub-Delivery header, with and without the SHA-256 signature of the
\* body {} under the secret "k1", and the bodies {} and {].
Deliveries ==
  {[headers |-> Headers(n, d, NoneStr, s256, <<"u", "a">>, application_json),
    raw_body |-> b] :
     n \in EventNames, d \in {NoneStr, <<"d", "1">>},
     s256 \in {NoneStr, compute_signature(<<123, 125>>, <<107, 49>>, "sha256").value},
     b \in {<<123, 125>>, <<123, 93>>}}

\* A view that goes on to dispatch whatever accept_event did.
proceeds_always(outcome) == TRUE

\* The statement after `event = accept_event(...)` is reached only if
\* accept_event returned.
proceeds(outcome) == outcome.raised = ""

\* event = accept_event(flask.request.headers, flask.request.get_data(),
\* webhook.secret), and the call webhook.dispatch(event) if that returned; an
\* exception of accept_event leaves the view.
event_handler(req) ==
  /\ step # "loop"
  /\ serving # "dispatch"
  /\ LET outcome == accept_event(req.headers, req.raw_body, secret)
     IN /\ acceptance' = [acceptance EXCEPT !.accepted = outcome]
        /\ IF proceeds(outcome)
           THEN webhook' = [begin_dispatch(webhook, outcome.event) EXCEPT
                              !.serving = "dispatch",
                              !.dispatches = 1,
                              !.response = NotReturned]
           ELSE webhook' = [no_dispatch(webhook) EXCEPT
                              !.serving = "raised",
                              !.dispatches = 0,
                              !.response = NotReturned]
  /\ UNCHANGED <<tokenVars, signatures>>

\* The status of the tuple the view returns.
status_accepted == 202

\* webhook.dispatch(event) has returned: return '', 202, {}.  An exception of
\* a handler leaves dispatch and the view.
Respond ==
  /\ serving = "dispatch"
  /\ step = "returned"
  /\ IF returned = "raised"
     THEN webhook' = [webhook EXCEPT !.serving = "raised"]
     ELSE webhook' = [webhook EXCEPT
                        !.serving = "responded",
                        !.response = [body |-> <<>>, status |-> status_accepted]]
  /\ UNCHANGED <<tokenVars, acceptance, signatures>>

NextWebhook ==
  \/ \E pat \in Patterns, func \in HandlerFuncs : listen(pat, func)
  \/ \E e \in Events : dispatch(e)
  \/ Iterate
  \/ Exhausted
  \/ \E req \in Deliveries : event_handler(req)
  \/ Respond

(***************************************************************************)
(* Calls of accept_event                                                   *)
(***************************************************************************)
Request(h, raw_body, webhook_secret) ==
  [headers |-> h, raw_body |-> raw_body, webhook_secret |-> webhook_secret]

text_plain == <<"t", "e", "x", "t", "/", "p", "l", "a", "i", "n">>

\* The Content-Type values: absent, empty, blank, another type, and
\* application/json bare and with a parameter.
ContentTypes ==
  {NoneStr, <<>>, <<" ">>, text_plain, application_json,
   application_json \o <<";">> \o encoding_key \o <<"=">> \o latin1,
   application_json \o <<";", " ", "c", "h", "a", "r", "s", "e", "t", "=">> \o latin1}

\* The bodies: {} and [], the text {] that is no JSON, and the byte 0xE9.
Bodies == {<<123, 125>>, <<91, 93>>, <<123, 93>>, <<233>>}

\* The webhook_secret values: None, the empty string, an ASCII secret and a
\* secret with a non-ASCII character.
Secrets == {NoneStr, <<>>, <<"k", "1">>, <<NonAscii>>}

\* The signature header values: absent, empty, not ASCII, and the signatures
\* of the two JSON bodies under the secret "k1" with either algorithm.
SignatureValues ==
  {NoneStr, <<>>, <<NonAscii>>}
    \cup {compute_signature(b, <<107, 49>>, a).value :
            b \in {<<123, 125>>, <<91, 93>>}, a \in SupportedAlgos}

Requests ==
  {Request(Headers(n, d, s1, s256, ua, ct), b, ws) :
     n \in {NoneStr, <<>>, pull_request}, d \in {NoneStr, <<>>, <<"d", "1">>},
     s1 \in SignatureValues, s256 \in SignatureValues,
     ua \in {NoneStr, <<>>, <<"u", "a">>}, ct \in ContentTypes,
     b \in Bodies, ws \in Secrets}

NoRequest ==
  Request(Headers(NoneStr, NoneStr, NoneStr, NoneStr, NoneStr, NoneStr), <<>>, NoneStr)

\* No call of accept_event has been made, with no request at hand.
EventQuiet == acceptance = [request |-> NoRequest, accepted |-> Pending]

EventInit == acceptance \in {[request |-> r, accepted |-> Pending] : r \in Requests}

\* event = accept_event(headers, raw_body, webhook_secret)
AcceptEvent ==
  /\ accepted = Pending
  /\ acceptance' = [acceptance EXCEPT
                      !.accepted = accept_event(request.headers, request.raw_body,
                                                request.webhook_secret)]
  /\ UNCHANGED <<tokenVars, webhook, signatures>>

NextEvent == AcceptEvent

(***************************************************************************)
(* Calls of compute_signature and check_signature                          *)
(***************************************************************************)
MaxLen == 2

\* The byte strings of at most MaxLen bytes out of 0x00, 0x7B and 0xFF.
ByteStrings == UNION {[1..n -> {0, 123, 255}] : n \in 0..MaxLen}

\* The keys: none, a zero byte, and a byte that is not zero.
Keys == {<<>>, <<0>>, <<107>>}

Algos == SupportedAlgos \cup {"md5"}

NotComputed == [raised |-> "pending", value |-> <<>>]
NoVerdict == [payload |-> <<>>, outcome |-> Checked(<<>>, "", "pending", <<>>)]

SignatureInit ==
  signatures \in {[signing |-> a, produced |-> NotComputed, verdict |-> NoVerdict] :
                    a \in [payload : ByteStrings, key : Keys, algo : Algos]}

\* sig = compute_signature(payload, secret, algo)
ComputeSignature ==
  /\ produced = NotComputed
  /\ signatures' = [signatures EXCEPT
                      !.produced = compute_signature(signing.payload, signing.key,
                                                     signing.algo)]
  /\ UNCHANGED <<tokenVars, webhook, acceptance>>

\* check_signature(sig, payload, secret, algo), for the payload that was signed
\* or another one
CheckSignature(payload) ==
  /\ produced.raised = ""
  /\ verdict = NoVerdict
  /\ signatures' = [signatures EXCEPT
                      !.verdict = [payload |-> payload,
                                   outcome |-> check_signature(produced.value, payload,
                                                               signing.key,
                                                               signing.algo)]]
  /\ UNCHANGED <<tokenVars, webhook, acceptance>>

NextSignature ==
  \/ ComputeSignature
  \/ \E payload \in ByteStrings : CheckSignature(payload)

(***************************************************************************)
(* Specifications                                                          *)
(***************************************************************************)
\* The token suppliers idle: no call is made.
TokenQuiet == TokenInit /\ private_key = "pem_valid"

Init == TokenInit /\ webhook = Unused /\ acceptance = Unused /\ signatures = Unused

Spec == Init /\ [][Next]_vars

InitWebhook == TokenQuiet /\ WebhookInit /\ EventQuiet /\ signatures = Unused

\* The steps a thread takes inside a call it has made: entering a `with lock:`
\* block that is free, the statements of the block, JWT signing, and the
\* requestor's return or exception.
Step(t) ==
  \/ AcquireAppLock(t)
  \/ SetDefault(t)
  \/ Acquire(t)
  \/ Check(t)
  \/ JwtNewToken(t)
  \/ AppJwt(t)
  \/ \E data \in Responses : RequestorReturns(t, data)
  \/ RequestorRaises(t)

\* The scheduler lets every thread that can take a step take one, and every
\* JWT signing and requestor call ends.
Fairness == \A t \in Threads : WF_vars(Step(t))

SpecFair == Spec /\ Fairness

SpecWebhook == InitWebhook /\ [][NextWebhook]_vars

InitEvent == TokenQuiet /\ webhook = Unused /\ EventInit /\ signatures = Unused

SpecEvent == InitEvent /\ [][NextEvent]_vars

InitSignature == TokenQuiet /\ webhook = Unused /\ acceptance = Unused /\ SignatureInit

SpecSignature == InitSignature /\ [][NextSignature]_vars

(***************************************************************************)
(* Claims                                                                  *)
(***************************************************************************)
\* C1 (single-flight refresh).  For every supplier object: (a) after a fetch
\* that succeeded, _new_token is invoked again only by a check that finds the
\* fetched token expired; (b) the callers that hold unexpired tokens of the
\* supplier all hold the same token; (c) as long as every fetch so far has
\* succeeded with a token that is still unexpired, _new_token has been invoked
\* at most once, and every caller that called while the cache was absent or
\* expired has returned the token of that one fetch.
C1_SingleFlight ==
  \A o \in Objs :
    LET L == fetchLog[o]
        th == IF o = JwtObj THEN JwtThreshold ELSE InstThreshold
        Callers == {t \in Threads : result[t].kind = "token" /\ result[t].obj = o}
    IN /\ \A i, j \in DOMAIN L :
            (i < j /\ L[i].tok # None) => L[i].tok.exp - L[j].at <= th
       /\ \A t, u \in Callers :
            (result[t].tok.exp - now > th /\ result[u].tok.exp - now > th)
              => result[t].tok = result[u].tok
       /\ (\A i \in DOMAIN L : L[i].tok # None /\ L[i].tok.exp - now > th)
            => /\ Len(L) <= 1
               /\ \A t \in Callers :
                    result[t].stale => Len(L) = 1 /\ result[t].tok = L[1].tok

\* Two threads called one supplier while its cache was unusable; one fetched,
\* the other waited for the lock and returned the fetched token.
C1_Witness ==
  \E t, u \in Threads :
    /\ t # u
    /\ result[t].kind = "token" /\ result[u].kind = "token"
    /\ result[t].obj = result[u].obj
    /\ result[t].stale /\ result[u].stale
    /\ result[t].n = 1 /\ result[u].n = 0
    /\ result[t].tok = result[u].tok
    /\ Len(fetchLog[result[t].obj]) = 1

\* C2 (mutual exclusion of refresh).  In every state at most one thread is
\* inside _new_token of a supplier object and every thread between the check
\* and the end of the `with` block holds the object's lock; a step that changes
\* _cached_token of an object is taken by the thread holding its lock, which is
\* inside _new_token, and replaces the token as a whole.
C2_MutualExclusion ==
  /\ [](\A o \in Objs :
          LET Inside(t) == \E k \in DOMAIN stack[t] :
                             /\ stack[t][k].sup = o
                             /\ k < Len(stack[t]) \/ pc[t] \in {"check", "new_token", "request"}
              Fetching(t) == \E k \in DOMAIN stack[t] :
                               /\ stack[t][k].sup = o
                               /\ k < Len(stack[t]) \/ pc[t] \in {"new_token", "request"}
          IN /\ Cardinality({t \in Threads : Fetching(t)}) <= 1
             /\ \A t \in Threads : Inside(t) => lock[o] = t)
  /\ [][\A o \in Objs :
          cached'[o] # cached[o] =>
            /\ lock[o] \in Threads
            /\ pc[lock[o]] \in {"new_token", "request"}
            /\ Top(lock[o]).sup = o
            /\ cached'[o] \in {fetchLog'[o][i].tok : i \in DOMAIN fetchLog'[o]}
            /\ cached'[o] # None]_vars

\* One thread is inside _new_token while another waits for the same lock.
C2_Witness ==
  \E t, u \in Threads :
    /\ t # u
    /\ pc[t] \in {"new_token", "request"}
    /\ pc[u] = "acquire"
    /\ Top(u).sup = Top(t).sup

\* C3 as claimed (never an expired token).  Every TokenInfo a supplier call
\* returns satisfies exp - now > threshold at the moment it is returned, whether
\* it came from the cache or from the call's own fetch.
C3_NeverExpired ==
  [][\A t \in Threads :
       (result'[t] # result[t] /\ result'[t].kind = "token")
         => result'[t].tok.exp - now >
              (IF result'[t].obj = JwtObj THEN JwtThreshold ELSE InstThreshold)]_vars

\* C3 as amended.  A TokenInfo that a call returns from the cache, without a
\* fetch, satisfies exp - now > threshold at the moment of the call's check,
\* and so does every TokenInfo the app's JwtSupplier returns; a token that an
\* InstallationTokenSupplier call fetched is returned without a check.
C3_CachedNeverExpired ==
  [][\A t \in Threads :
       (result'[t] # result[t] /\ result'[t].kind = "token")
         => /\ result'[t].n = 0 => result'[t].tok.exp - now > InstThreshold
            /\ result'[t].obj = JwtObj => result'[t].tok.exp - now > JwtThreshold
            /\ result'[t].n = 0 => result'[t].tok = cached[result'[t].obj]]_vars

\* A call returned a cached installation token at the last instant before the
\* threshold, after another call had fetched it.
C3_Witness ==
  \E t \in Threads :
    /\ result[t].kind = "token"
    /\ result[t].obj # JwtObj
    /\ result[t].n = 0
    /\ result[t].tok.exp - now = InstThreshold + 1

\* C4 (a failed refresh leaves the supplier unchanged).  In the step in which
\* _new_token raises, the exception reaches the caller, every supplier whose
\* call fails keeps the cached token its check had read (None or the previous
\* token), and its lock is free afterwards.
C4_FailureLeavesUnchanged ==
  [][\A t \in Threads :
       (pc[t] \in {"new_token", "request"} /\ pc'[t] = "idle"
          /\ result'[t].kind # "token")
         => /\ result'[t].kind = "raised"
            /\ \A k \in DOMAIN stack[t] :
                 /\ cached'[stack[t][k].sup] = stack[t][k].seen
                 /\ cached'[stack[t][k].sup] = cached[stack[t][k].sup]
                 /\ lock[stack[t][k].sup] = t
                 /\ lock'[stack[t][k].sup] = NoThread]_vars

\* The refresh of a supplier that holds a token has failed: the caller got the
\* exception, the token is still cached and the lock is free.
C4_Witness ==
  \E t \in Threads :
    /\ result[t].kind = "raised"
    /\ result[t].n = 1
    /\ cached[result[t].obj] # None
    /\ fetchLog[result[t].obj][Len(fetchLog[result[t].obj])].tok = None
    /\ lock[result[t].obj] = NoThread

\* C5 (no retry inside the supplier).  A supplier call invokes _new_token at
\* most once; and a check that follows a failed _new_token of the same supplier
\* invokes _new_token again: it neither returns the cached token nor raises.
C5_NoRetry ==
  /\ [](\A t \in Threads :
          /\ result[t].n <= 1
          /\ \A k \in DOMAIN stack[t] : stack[t][k].n <= 1)
  /\ [][\A t \in Threads :
          LET o == Top(t).sup
              L == fetchLog[o]
          IN (pc[t] = "check" /\ pc'[t] # "check" /\ L # <<>> /\ L[Len(L)].tok = None)
               => /\ pc'[t] = "new_token"
                  /\ stack'[t][Len(stack[t])].n = 1
                  /\ result'[t] = result[t]]_vars

\* After a call whose _new_token failed, the next call on the supplier is
\* inside _new_token again.
C5_Witness ==
  \E t, u \in Threads :
    /\ result[t].kind = "raised"
    /\ result[t].n = 1
    /\ pc[u] = "new_token"
    /\ Top(u).sup = result[t].obj
    /\ Top(u).n = 1
    /\ fetchLog[result[t].obj][Len(fetchLog[result[t].obj])].tok = None

\* C6 (expiry threshold).  _is_expired(t) is true exactly when
\* t.exp - now <= threshold, for the cached token of every supplier; and the
\* check of a supplier call returns the cached token, without invoking
\* _new_token, exactly when a token is cached and its exp - now > threshold.
C6_ExpiryThreshold ==
  /\ [](\A o \in Objs :
          LET th == IF o = JwtObj THEN JwtThreshold ELSE InstThreshold
          IN /\ cached[o].exp - now > th => ~is_expired(o, cached[o])
             /\ cached[o].exp - now <= th => is_expired(o, cached[o]))
  /\ [][\A t \in Threads :
          LET o == Top(t).sup
              th == IF o = JwtObj THEN JwtThreshold ELSE InstThreshold
              fresh == cached[o] # None /\ cached[o].exp - now > th
          IN (pc[t] = "check" /\ pc'[t] # "check")
               => /\ fresh <=> pc'[t] # "new_token"
                  /\ fresh <=> Len(stack'[t]) = Len(stack[t]) - 1
                  /\ (fresh /\ Len(stack[t]) = 1) =>
                       result'[t].kind = "token" /\ result'[t].tok = cached[o]
                         /\ result'[t].n = 0
                  /\ (fresh /\ Len(stack[t]) = 2) =>
                       hdr'[t] = <<cached[o].type, cached[o].value>>
                  /\ ~fresh => stack'[t][Len(stack[t])].n = 1]_vars

\* A check read a cached token exactly at the threshold and invoked _new_token.
C6_Witness ==
  \E t \in Threads :
    /\ pc[t] = "new_token"
    /\ Top(t).seen # None
    /\ Top(t).seen.exp - Top(t).at = Threshold(Top(t).sup)
    /\ Top(t).n = 1

\* C7 (memoized installation suppliers).  Every supplier that
\* get_installation_token_supplier has returned, and every supplier that
\* installation_token calls, is the object the mapping holds for the call's
\* installation id, and the mapping holds different objects for different ids:
\* calls with the same id get the same instance, calls with different ids
\* distinct ones.  An entry of the mapping is never replaced or removed, and the
\* mapping changes only in the step of the thread that holds GithubApp's lock.
C7_Memoized ==
  /\ [](/\ \A t \in Threads :
             /\ result[t].kind = "supplier" =>
                  /\ result[t].obj = installation_tokens[arg[t]]
                  /\ installation_id[result[t].obj] = arg[t]
             /\ (op[t] = "token" /\ stack[t] # <<>>) =>
                  stack[t][1].sup = installation_tokens[arg[t]]
             /\ (op[t] = "token" /\ result[t].kind # "none") =>
                  result[t].obj = installation_tokens[arg[t]]
        /\ \A i, j \in InstallationIds :
             (i # j /\ installation_tokens[i] # NoObj)
               => installation_tokens[i] # installation_tokens[j])
  /\ [][/\ \A i \in InstallationIds :
             installation_tokens[i] # NoObj
               => installation_tokens'[i] = installation_tokens[i]
        /\ installation_tokens' # installation_tokens
             => /\ appLock \in Threads
                /\ pc[appLock] = "setdefault"
                /\ pc'[appLock] # "setdefault"
                /\ appLock' = NoThread]_vars

\* Two threads asked for the supplier of the same installation id and hold the
\* same instance, while the other id has got a different instance or none.
C7_Witness ==
  \E t, u \in Threads :
    /\ t # u
    /\ result[t].kind = "supplier" /\ result[u].kind = "supplier"
    /\ arg[t] = arg[u]
    /\ result[t].obj = result[u].obj

\* Two threads hold the suppliers of two different installation ids.
C7_WitnessDistinct ==
  \E t, u \in Threads :
    /\ result[t].kind = "supplier" /\ result[u].kind = "supplier"
    /\ arg[t] # arg[u]
    /\ result[t].obj # result[u].obj

\* C8 (concurrent first uses of one installation collapse).  For every
\* installation id: as long as every requestor invocation for the id so far
\* is in flight or has answered a token that is still unexpired, the requestor
\* has been invoked at most once for the id, and every installation_token
\* call for the id that has returned has returned the token of that one answer.
C8_FirstUsesCollapse ==
  \A id \in InstallationIds :
    LET L == reqLog[id]
        Unexpired(r) ==
          r.kind = "ok" /\ (r.expires_at.local - r.expires_at.offset) - now > InstThreshold
    IN (\A i \in DOMAIN L : L[i].resp.kind = "pending" \/ Unexpired(L[i].resp))
         => /\ Len(L) <= 1
            /\ \A t \in Threads :
                 (op[t] = "token" /\ arg[t] = id /\ result[t].kind = "token")
                   => /\ Len(L) = 1
                      /\ L[1].resp.kind = "ok"
                      /\ result[t].tok.type = "token"
                      /\ result[t].tok.value = L[1].resp.token
                      /\ result[t].tok.exp =
                           L[1].resp.expires_at.local - L[1].resp.expires_at.offset

\* Two threads called installation_token for one id that had no cached token;
\* the requestor was invoked once and both returned its token.
C8_Witness ==
  \E t, u \in Threads :
    /\ t # u
    /\ op[t] = "token" /\ op[u] = "token"
    /\ arg[t] = arg[u]
    /\ result[t].kind = "token" /\ result[u].kind = "token"
    /\ result[t].stale /\ result[u].stale
    /\ result[t].n = 1 /\ result[u].n = 0
    /\ result[t].tok = result[u].tok
    /\ Len(reqLog[arg[t]]) = 1
    /\ reqLog[arg[t]][1].resp.kind = "ok"

\* C9 (different installations do not block each other).  A thread whose
\* requestor call is in flight holds the lock of its own installation supplier
\* and no other lock: not GithubApp's lock, not the app JWT supplier's lock.
\* So a thread that runs installation_token for another installation id never
\* waits for a lock that the thread in the exchange holds.
C9_Independent ==
  \A a \in Threads :
    pc[a] = "request" =>
      /\ Len(stack[a]) = 1
      /\ lock[Top(a).sup] = a
      /\ appLock # a
      /\ lock[JwtObj] # a
      /\ \A o \in Objs : lock[o] = a => o = Top(a).sup
      /\ \A b \in Threads :
           (b # a /\ op[b] = "token" /\ arg[b] # arg[a])
             => /\ pc[b] = "app_lock" => appLock # a
                /\ pc[b] = "acquire" => lock[Top(b).sup] # a
                /\ pc[b] \in {"setdefault", "check", "new_token", "request"}
                     => ENABLED (SetDefault(b) \/ Check(b) \/ JwtNewToken(b) \/ AppJwt(b)
                                   \/ RequestorRaises(b))

\* While the exchange of one installation is in flight (it was sent with the
\* JWT signed at 0), installation_token for another installation has run to
\* completion: its exchange carried a JWT signed later.
C9_Witness ==
  \E a, b \in Threads :
    /\ pc[a] = "request"
    /\ hdr[a] = <<"Bearer", <<"jwt", AppId, 0, JwtExpiresIn>>>>
    /\ op[b] = "token" /\ arg[b] # arg[a]
    /\ result[b].kind = "token" /\ result[b].n = 1
    /\ reqLog[arg[b]][1].hdr # hdr[a]

\* C10 (credential chaining).  (1) The requestor is invoked in the step in
\* which the call of the app's JWT supplier returns inside _new_token, with
\* the auth header "Bearer <jwt>" of the token that call returned, which is
\* the JWT supplier's cached, unexpired token, and with the installation id of
\* the supplier; (2) it is invoked only there, once in a fetch; (3) the cached
\* token of an installation supplier changes only when the requestor has
\* answered, and becomes the TokenInfo of type "token" with the answered token
\* string and the instant of the answered expires_at; (4) when the JWT call
\* raises, the requestor is not invoked and no cache changes.
C10_Chaining ==
  [][/\ \A t \in Threads :
         (pc[t] # "request" /\ pc'[t] = "request")
           => LET J == cached'[JwtObj]
                  id == installation_id[stack[t][1].sup]
              IN /\ Len(stack[t]) = 2 /\ Top(t).sup = JwtObj
                 /\ stack[t][1].n = 1 /\ stack[t][1].req = 0
                 /\ J.type = "Bearer" /\ J.value[1] = "jwt" /\ J.value[2] = AppId
                 /\ J.exp - now > JwtThreshold
                 /\ hdr'[t] = <<"Bearer", J.value>>
                 /\ id = arg[t]
                 /\ reqLog' = [reqLog EXCEPT ![id] =
                                 Append(@, [hdr |-> <<"Bearer", J.value>>,
                                            resp |-> NoResponse])]
                 /\ cached'[stack[t][1].sup] = cached[stack[t][1].sup]
     /\ (\E id \in InstallationIds : Len(reqLog'[id]) # Len(reqLog[id]))
          => \E t \in Threads : pc[t] # "request" /\ pc'[t] = "request"
     /\ \A o \in InstObjs :
         (cached'[o] # cached[o] /\ cached'[o] # None)
           => \E t \in Threads :
                LET e == reqLog'[installation_id[o]][Top(t).req]
                IN /\ pc[t] = "request" /\ Top(t).sup = o
                   /\ e.hdr = hdr[t]
                   /\ reqLog[installation_id[o]][Top(t).req].resp = NoResponse
                   /\ e.resp.kind = "ok"
                   /\ cached'[o] =
                        [exp |-> e.resp.expires_at.local - e.resp.expires_at.offset,
                         type |-> "token", value |-> e.resp.token]
     /\ \A t \in Threads :
         (Len(stack[t]) = 2 /\ pc'[t] = "idle")
           => /\ result'[t].kind = "raised"
              /\ stack[t][1].req = 0
              /\ reqLog' = reqLog
              /\ cached' = cached]_vars

\* An installation supplier has cached the token of an answer whose expires_at
\* carries a UTC offset, fetched with the app's JWT.
C10_Witness ==
  \E o \in {x \in InstObjs : installation_id[x] # 0} :
    \E i \in DOMAIN reqLog[installation_id[o]] :
    LET e == reqLog[installation_id[o]][i]
    IN /\ installation_tokens[installation_id[o]] = o
       /\ e.resp.kind = "ok"
       /\ e.resp.expires_at.offset # 0
       /\ e.hdr = <<"Bearer", cached[JwtObj].value>>
       /\ cached[o] = [exp |-> e.resp.expires_at.local - e.resp.expires_at.offset,
                        type |-> "token", value |-> e.resp.token]

\* The JWT call inside an installation fetch has raised: the caller got the
\* exception and the requestor has never been invoked.
C10_WitnessJwtFails ==
  \E t \in Threads :
    /\ op[t] = "token"
    /\ result[t].kind = "raised"
    /\ private_key = "pem_invalid"
    /\ \A id \in InstallationIds : reqLog[id] = <<>>

\* C11 (first match wins in dispatch).  In every state of a dispatch call the
\* handlers invoked so far are, in registration order, exactly the handlers
\* the loop has passed whose pattern matches event.name; a handler registered
\* under another event's name is never invoked; every invoked handler before
\* the last returned no true value, and once a handler has returned True the
\* call has returned True at that handler.  After the call has returned it
\* invokes no further handler.  With the handlers (pull_request, h1 -> False),
\* (pull_request, h2 -> True), (*, h3 -> True) and a pull_request event, h1 and
\* h2 are invoked in that order, h3 is not, and the result is True.
C11_FirstMatchWins ==
  /\ [](step \in {"loop", "returned"} =>
          LET passed == IF step = "loop" \/ logged # "" THEN index - 1 ELSE index
              at(k) == invoked[k].index
          IN /\ \A k \in DOMAIN invoked :
                  /\ fnmatch(event.name, handlers[at(k)].event)
                  /\ handlers[at(k)].event \in EventNames
                       => handlers[at(k)].event = event.name
                  /\ invoked[k].value = call(handlers[at(k)].func)
             /\ \A j, k \in DOMAIN invoked : j < k => at(j) < at(k)
             /\ {at(k) : k \in DOMAIN invoked}
                  = {j \in 1..passed : fnmatch(event.name, handlers[j].event)}
             /\ \A k \in DOMAIN invoked :
                  invoked[k].value = "True"
                    => /\ k = Len(invoked)
                       /\ step = "returned"
                       /\ returned = "True"
                       /\ index = at(k)
             /\ ( /\ step = "returned"
                  /\ event.name = pull_request
                  /\ handlers = <<EventHandler(pull_request, "return False"),
                                  EventHandler(pull_request, "return True"),
                                  EventHandler(<<"*">>, "return True")>> )
                  => /\ invoked = << [index |-> 1, value |-> "False"],
                                     [index |-> 2, value |-> "True"] >>
                     /\ returned = "True")
  /\ [][step = "returned" /\ step' = "returned"
          => invoked' = invoked /\ returned' = returned]_vars

\* The dispatch call of the scenario has returned.
C11_Witness ==
  /\ step = "returned"
  /\ event.name = pull_request
  /\ handlers = <<EventHandler(pull_request, "return False"),
                  EventHandler(pull_request, "return True"),
                  EventHandler(<<"*">>, "return True")>>
  /\ Len(invoked) = 2
  /\ returned = "True"

\* C12 (dispatch result).  A dispatch call that has returned has returned True
\* if a handler it invoked returned a true value, and False otherwise: both
\* when no pattern matched and when every handler that matched returned no
\* true value.
C12_FalseUnlessHandled ==
  (step = "returned" /\ returned # "raised")
    => returned = IF \E k \in DOMAIN invoked : invoked[k].value = "True"
                  THEN "True" ELSE "False"

\* C13 (required headers).  A call of accept_event whose headers lack one of
\* X-GitHub-Event, X-GitHub-Delivery, User-Agent, Content-Type, or carry it
\* with an empty value, raises InvalidRequest, returns no Event and makes no
\* check_signature call, whatever the body and the webhook secret are.
C13_RequiredHeaders ==
  LET h == request.headers
      missing(x) == x = NoneStr \/ x = <<>>
  IN ( /\ accepted # Pending
       /\ \/ missing(h.event_name) \/ missing(h.delivery_id)
          \/ missing(h.user_agent) \/ missing(h.content_type) )
       => /\ accepted.raised = "InvalidRequest"
          /\ accepted.event = NoEvent
          /\ accepted.checks = <<>>

\* X-GitHub-Delivery alone is missing from a request that carries the valid
\* SHA-256 signature of its body: InvalidRequest.
C13_Witness ==
  /\ accepted.raised = "InvalidRequest"
  /\ request.headers.delivery_id = NoneStr
  /\ request.headers.event_name = pull_request
  /\ request.headers.user_agent = <<"u", "a">>
  /\ request.headers.content_type = application_json
  /\ request.webhook_secret = <<"k", "1">>
  /\ request.headers.signature_256
       = compute_signature(request.raw_body, <<107, 49>>, "sha256").value

\* C14 (missing signature header).  With a webhook secret configured (not
\* None), a call of accept_event whose headers carry neither X-Hub-Signature
\* nor X-Hub-Signature-256 (or carry them empty) raises InvalidRequest and
\* returns no Event, whatever the body and the content type are.
C14_MissingSignature ==
  LET h == request.headers
      missing(x) == x = NoneStr \/ x = <<>>
  IN ( /\ accepted # Pending
       /\ request.webhook_secret # NoneStr
       /\ missing(h.signature_1)
       /\ missing(h.signature_256) )
       => /\ accepted.raised = "InvalidRequest"
          /\ accepted.event = NoEvent
          /\ accepted.checks = <<>>

\* The four required headers are there, the secret is configured, no signature
\* header is: InvalidRequest, also for a body that is no JSON and a content
\* type that is not application/json.
C14_Witness ==
  /\ accepted.raised = "InvalidRequest"
  /\ request.webhook_secret = <<"k", "1">>
  /\ request.headers.signature_1 = NoneStr
  /\ request.headers.signature_256 = NoneStr
  /\ request.headers.event_name = pull_request
  /\ request.headers.delivery_id = <<"d", "1">>
  /\ request.headers.user_agent = <<"u", "a">>
  /\ request.headers.content_type = <<" ">>
  /\ request.raw_body = <<123, 93>>

\* C15 as stated (SHA-256 is preferred).  With a secret configured, whenever
\* the X-Hub-Signature-256 header is present the only check_signature call is
\* the one of that header with sha256, X-Hub-Signature is checked with sha1
\* only when the 256 header is absent, and the Event returned carries the
\* header value that was checked.
C15_Sha256WheneverPresent ==
  LET h == request.headers
  IN (accepted # Pending /\ request.webhook_secret # NoneStr)
       => /\ \A k \in DOMAIN accepted.checks :
               IF h.signature_256 # NoneStr
               THEN /\ accepted.checks[k].algo = "sha256"
                    /\ accepted.checks[k].sig = h.signature_256
               ELSE /\ accepted.checks[k].algo = "sha1"
                    /\ accepted.checks[k].sig = h.signature_1
          /\ accepted.raised = ""
               => /\ Len(accepted.checks) = 1
                  /\ accepted.event.signature = accepted.checks[1].sig

\* C15 (SHA-256 is preferred), for headers that are not empty.  With a secret
\* configured, a call of accept_event makes at most one check_signature call:
\* of the X-Hub-Signature-256 value with sha256 whenever that header is present
\* and not empty, and of the X-Hub-Signature value with sha1 otherwise (the 256
\* header absent or empty); the Event returned carries the header value that
\* was checked.
C15_Sha256Preferred ==
  LET h == request.headers
  IN (accepted # Pending /\ request.webhook_secret # NoneStr)
       => /\ Len(accepted.checks) <= 1
          /\ \A k \in DOMAIN accepted.checks :
               IF h.signature_256 # NoneStr /\ h.signature_256 # <<>>
               THEN /\ accepted.checks[k].algo = "sha256"
                    /\ accepted.checks[k].sig = h.signature_256
               ELSE /\ accepted.checks[k].algo = "sha1"
                    /\ accepted.checks[k].sig = h.signature_1
          /\ accepted.raised = ""
               => /\ Len(accepted.checks) = 1
                  /\ accepted.event.signature = accepted.checks[1].sig

\* Both signature headers are there, the SHA-1 one is not the body's: the
\* request is accepted on the SHA-256 header alone.
C15_Witness ==
  /\ accepted.raised = ""
  /\ request.webhook_secret = <<"k", "1">>
  /\ request.headers.signature_256
       = compute_signature(request.raw_body, <<107, 49>>, "sha256").value
  /\ request.headers.signature_1 \notin
       {NoneStr, <<>>, compute_signature(request.raw_body, <<107, 49>>, "sha1").value}
  /\ accepted.event.signature = request.headers.signature_256
  /\ Len(accepted.checks) = 1
  /\ accepted.checks[1].algo = "sha256"

\* C16 (no secret, no signature).  The Event that accept_event returns when no
\* webhook secret is configured has signature None, whatever signature headers
\* the request carries.
C16_NoSecretNoSignature ==
  (accepted.raised = "" /\ request.webhook_secret = NoneStr)
    => accepted.event.signature = NoneStr

\* C17 (no unauthenticated event).  With a secret configured, accept_event
\* returns an Event only after one check_signature call that succeeded, and
\* then the signature checked is the signature computed from the raw body and
\* the secret; a check whose comparison fails raises
\* SignatureMismatchException, and accept_event then raises that exception,
\* not InvalidRequest, and returns no Event.
C17_NoUnauthenticatedEvent ==
  (accepted # Pending /\ request.webhook_secret # NoneStr)
    => /\ accepted.raised = ""
            => /\ Len(accepted.checks) = 1
               /\ accepted.checks[1].raised = ""
               /\ accepted.checks[1].sig
                    = algo_prefix(accepted.checks[1].algo)
                        \o hex(hmac_digest([k \in DOMAIN request.webhook_secret |->
                                               ord(request.webhook_secret[k])],
                                           request.raw_body, accepted.checks[1].algo))
       /\ \A k \in DOMAIN accepted.checks :
            LET c == accepted.checks[k]
            IN /\ (IsAscii(c.sig) /\ c.sig # c.computed)
                    => c.raised = "SignatureMismatchException"
               /\ c.raised = "SignatureMismatchException"
                    => /\ accepted.raised = "SignatureMismatchException"
                       /\ accepted.event = NoEvent

\* The request carries the SHA-256 signature of another body: the check fails
\* and accept_event raises SignatureMismatchException.
C17_Witness ==
  /\ accepted.raised = "SignatureMismatchException"
  /\ request.webhook_secret = <<"k", "1">>
  /\ request.raw_body = <<123, 125>>
  /\ request.headers.signature_256
       = compute_signature(<<91, 93>>, <<107, 49>>, "sha256").value
  /\ accepted.checks[1].computed
       = compute_signature(<<123, 125>>, <<107, 49>>, "sha256").value

\* C18 (signature round trip).  For every payload, key and algo in {sha1,
\* sha256}: check_signature of the signature that compute_signature returned,
\* with the same payload, key and algo, returns without error; with any other
\* payload - in particular one that differs from the signed payload in one
\* byte - it raises SignatureMismatchException, which carries the signature
\* provided and the signature computed from the payload checked.
C18_RoundTrip ==
  verdict # NoVerdict
    => LET c == verdict.outcome
       IN /\ signing.algo \in {"sha1", "sha256"}
          /\ c.sig = produced.value
          /\ verdict.payload = signing.payload => c.raised = ""
          /\ verdict.payload # signing.payload
               => /\ c.raised = "SignatureMismatchException"
                  /\ c.computed # c.sig
                  /\ c.computed
                       = compute_signature(verdict.payload, signing.key, signing.algo).value

\* A two-byte payload was signed and the check of a payload with another
\* second byte has raised SignatureMismatchException.
C18_Witness ==
  /\ verdict # NoVerdict
  /\ Len(signing.payload) = 2
  /\ Len(verdict.payload) = 2
  /\ verdict.payload[1] = signing.payload[1]
  /\ verdict.payload[2] # signing.payload[2]
  /\ verdict.outcome.raised = "SignatureMismatchException"

\* The check of the payload that was signed has returned.
C18_WitnessSame ==
  /\ verdict # NoVerdict
  /\ verdict.payload = signing.payload
  /\ signing.payload # <<>>
  /\ verdict.outcome.raised = ""

\* C19 (JWT claim set).  Every token that a fetch of the app's JwtSupplier
\* produces carries the claims iss = the app id, iat = the time of the fetch
\* and exp = iat + the supplier's expires_in, and the TokenInfo returned has
\* type "Bearer" and exp equal to the exp claim.
C19_JwtClaims ==
  [][ Len(fetchLog'[JwtObj]) = Len(fetchLog[JwtObj]) + 1
        => LET tok == fetchLog'[JwtObj][Len(fetchLog'[JwtObj])].tok
           IN tok # None
                => /\ tok.type = "Bearer"
                   /\ tok.value = <<"jwt", AppId, now, now + JwtExpiresIn>>
                   /\ tok.value[4] - tok.value[3] = JwtExpiresIn
                   /\ tok.exp = tok.value[4]
                   /\ cached'[JwtObj] = tok ]_vars

\* A JWT was fetched at a time after the start.
C19_Witness ==
  /\ cached[JwtObj] # None
  /\ cached[JwtObj].value[3] > 0
  /\ cached[JwtObj].value[4] = cached[JwtObj].value[3] + JwtExpiresIn
  /\ Len(fetchLog[JwtObj]) >= 1

\* C20 (one dispatch per accepted delivery).  While the Flask view serves a
\* request that accept_event accepted, it has called webhook.dispatch once,
\* with the Event accept_event returned, and that call is not begun again;
\* when the call returns, True or False, the view returns status 202 with an
\* empty body.  For a request that accept_event rejected with an exception,
\* the view has called dispatch not at all, no handler has been invoked and
\* the view returns no response.
C20_OneDispatchPerDelivery ==
  /\ [](/\ serving \in {"dispatch", "responded"}
             => /\ accepted.raised = ""
                /\ dispatches = 1
                /\ event = accepted.event
                /\ step \in {"loop", "returned"}
        /\ serving = "responded"
             => /\ response = [body |-> <<>>, status |-> 202]
                /\ step = "returned"
                /\ returned \in {"True", "False"}
        /\ accepted.raised \notin {"", "pending"}
             => /\ serving = "raised"
                /\ dispatches = 0
                /\ step = "idle"
                /\ invoked = <<>>
                /\ response = NotReturned)
  /\ [][/\ (serving = "dispatch" /\ serving' = "dispatch")
             => /\ event' = event
                /\ dispatches' = dispatches
                /\ index' >= index
                /\ accepted' = accepted
        /\ (serving = "dispatch" /\ serving' # "dispatch")
             => /\ step = "returned"
                /\ returned \in {"True", "False"}
                     => /\ serving' = "responded"
                        /\ response' = [body |-> <<>>, status |-> 202]
                        /\ invoked' = invoked]_vars

\* With a secret configured, a signed delivery was accepted and dispatched to
\* a handler that returned False, and the view has answered 202.
C20_Witness ==
  /\ serving = "responded"
  /\ secret # NoneStr
  /\ accepted.raised = ""
  /\ Len(accepted.checks) = 1
  /\ Len(invoked) = 1
  /\ invoked[1].value = "False"
  /\ response.status = 202

\* With a secret configured, a delivery whose signature is not the body's was
\* rejected with SignatureMismatchException while handlers are registered.
C20_WitnessRejected ==
  /\ serving = "raised"
  /\ accepted.raised = "SignatureMismatchException"
  /\ Len(handlers) >= 1
  /\ dispatches = 0

\* C21 (dispatch diagnostic).  A dispatch call in progress has logged nothing,
\* and so has a call that a handler's exception left.  A call that has returned
\* has logged its diagnostic exactly if none of the registered handlers whose
\* pattern matches event.name returns a true value; the diagnostic is
\* "unmatched" exactly if no registered pattern matches event.name and
\* "unhandled" exactly if a pattern matches and every matching handler returned
\* False or None; a call in which a handler returned True has logged nothing.
C21_Diagnostic ==
  step \in {"loop", "returned"} =>
    LET matching == {j \in DOMAIN handlers : fnmatch(event.name, handlers[j].event)}
        value(j) == call(handlers[j].func)
    IN /\ logged \in {"", "unmatched", "unhandled"}
       /\ (step = "loop" \/ returned = "raised") => logged = ""
       /\ returned \in {"True", "False"}
            => /\ logged # "" <=> ~ \E j \in matching : value(j) = "True"
               /\ logged = "unmatched" <=> matching = {}
               /\ logged = "unhandled"
                    <=> /\ matching # {}
                        /\ \A j \in matching : value(j) \in {"False", "None"}
               /\ (\E k \in DOMAIN invoked : invoked[k].value = "True") => logged = ""

\* Two handlers matched a pull_request event, one returned False and one None,
\* and the call has logged "unhandled".
C21_Witness ==
  /\ step = "returned"
  /\ logged = "unhandled"
  /\ event.name = pull_request
  /\ Len(invoked) = 2
  /\ {invoked[k].value : k \in DOMAIN invoked} = {"False", "None"}

\* A push event met handlers for pull_request only, and the call has logged
\* "unmatched".
C21_WitnessUnmatched ==
  /\ step = "returned"
  /\ logged = "unmatched"
  /\ Len(handlers) >= 1
  /\ invoked = <<>>

\* C22 (registration appends).  The handler list holds one entry for each
\* listen call made.  Every step that changes the list is a listen call that
\* is made while no dispatch call runs, and it leaves the entries the list had
\* in place and in order and adds one (pattern, func) entry after them.  No
\* step of a dispatch call, from its entry to its return, changes the list.
\* A dispatch call that went through the whole list has invoked every entry
\* whose pattern matches event.name once, equal entries each on their own.
C22_RegistrationAppends ==
  /\ [](Len(handlers) = listened)
  /\ [](logged # "" =>
          /\ {invoked[k].index : k \in DOMAIN invoked}
               = {j \in DOMAIN handlers : fnmatch(event.name, handlers[j].event)}
          /\ \A j, k \in DOMAIN invoked : invoked[j].index = invoked[k].index => j = k)
  /\ [][/\ handlers' # handlers
             => /\ step # "loop"
                /\ listened' = listened + 1
                /\ Len(handlers') = Len(handlers) + 1
                /\ SubSeq(handlers', 1, Len(handlers)) = handlers
                /\ handlers'[Len(handlers')] \in [event : Patterns, func : HandlerFuncs]
        /\ (step = "loop" \/ step' = "loop") => handlers' = handlers]_vars

\* The pair (pull_request, return False) was registered twice, and one dispatch
\* of a pull_request event has invoked it twice.
C22_Witness ==
  /\ handlers = <<EventHandler(pull_request, "return False"),
                  EventHandler(pull_request, "return False")>>
  /\ listened = 2
  /\ step = "returned"
  /\ event.name = pull_request
  /\ invoked = << [index |-> 1, value |-> "False"], [index |-> 2, value |-> "False"] >>

\* C23: a thread waits for a lock another thread holds.
C23_Waits(t) ==
  \/ pc[t] = "app_lock" /\ appLock # NoThread
  \/ pc[t] = "acquire" /\ lock[Top(t).sup] # NoThread

\* C23: the locks a thread holds.
C23_Holds(t) == {o \in Objs : lock[o] = t}

\* C23 (deadlock freedom and completion).  In every state: a thread holds
\* GithubApp's lock only in the setdefault statement, with no supplier call
\* begun; a thread holds the locks of exactly the suppliers whose calls it has
\* entered, an installation supplier's first and the JWT supplier's inside it,
\* never more than these two; no thread waits for a lock it holds itself; a
\* thread that holds the JWT supplier's lock waits for no lock; and of the
\* threads that are inside a call, one is not waiting for a lock.  Under fair
\* scheduling, with every JWT signing and every requestor call ending, every
\* call a thread has made returns or raises.
C23_DeadlockFreeAndComplete ==
  /\ [](\A t \in Threads :
          /\ appLock = t => pc[t] = "setdefault" /\ stack[t] = <<>>
          /\ Len(stack[t]) <= 2
          /\ Len(stack[t]) = 2 => stack[t][1].sup # JwtObj /\ stack[t][2].sup = JwtObj
          /\ C23_Holds(t) = {stack[t][k].sup : k \in 1..(IF pc[t] = "acquire"
                                                     THEN Len(stack[t]) - 1
                                                     ELSE Len(stack[t]))}
          /\ pc[t] = "app_lock" => appLock # t
          /\ pc[t] = "acquire" => lock[Top(t).sup] # t
          /\ lock[JwtObj] = t => ~C23_Waits(t))
  /\ []((\E t \in Threads : pc[t] # "idle")
          => \E t \in Threads : pc[t] # "idle" /\ ~C23_Waits(t))
  /\ \A t \in Threads : (pc[t] # "idle") ~> (pc[t] = "idle")

\* One thread is inside the requestor call with its installation supplier's
\* lock held while the other waits for that lock.
C23_Witness ==
  \E t, u \in Threads :
    /\ pc[t] = "request"
    /\ pc[u] = "acquire"
    /\ C23_Waits(u)
    /\ lock[Top(u).sup] = t

\* C24 (one shared app JWT).  The supplier called by the jwt property and the
\* supplier every InstallationTokenSupplier calls for its app JWT are the one
\* JwtSupplier of the GithubApp.  A step signs a JWT, or changes the cached
\* JWT, only if the cached JWT is absent or expired before the step; so while
\* it is not expired no JWT is signed.  Every jwt read that returns, returns
\* the JWT that is cached after the step, and every requestor invocation, for
\* whatever installation id, carries the auth header of that JWT.
C24_SharedJwt ==
  /\ [](\A t \in Threads :
          /\ (op[t] = "jwt" /\ stack[t] # <<>>) => stack[t] = <<stack[t][1]>>
                                                    /\ stack[t][1].sup = JwtObj
          /\ (op[t] = "token" /\ stack[t] # <<>>) => stack[t][1].sup \in InstObjs
          /\ \A k \in DOMAIN stack[t] : k > 1 => stack[t][k].sup = JwtObj)
  /\ [][/\ Len(fetchLog'[JwtObj]) > Len(fetchLog[JwtObj]) => ~Usable(JwtObj)
        /\ cached'[JwtObj] # cached[JwtObj] => ~Usable(JwtObj)
        /\ Usable(JwtObj) => fetchLog'[JwtObj] = fetchLog[JwtObj]
        /\ \A id \in InstallationIds :
             Len(reqLog'[id]) > Len(reqLog[id])
               => /\ cached'[JwtObj] # None
                  /\ reqLog'[id][Len(reqLog'[id])].hdr = auth_header(cached'[JwtObj])
        /\ \A t \in Threads :
             (op[t] = "jwt" /\ result'[t] # result[t] /\ result'[t].kind = "token")
               => /\ result'[t].obj = JwtObj
                  /\ result'[t].tok = cached'[JwtObj]]_vars

\* The JWT was signed once; the fetches for the installations 1 and 2 both
\* carried its auth header, and it is still not expired.
C24_Witness ==
  /\ Len(fetchLog[JwtObj]) = 1
  /\ Usable(JwtObj)
  /\ Len(reqLog[1]) = 1
  /\ Len(reqLog[2]) = 1
  /\ reqLog[1][1].hdr = auth_header(cached[JwtObj])
  /\ reqLog[2][1].hdr = auth_header(cached[JwtObj])
  /\ \A t \in Threads : result[t].kind = "token"

\* A jwt read returned the JWT whose auth header a fetch for an installation
\* carried, with one signing.
C24_WitnessRead ==
  \E t, u \in Threads :
    /\ op[t] = "jwt" /\ result[t].kind = "token"
    /\ op[u] = "token" /\ result[u].kind = "token"
    /\ reqLog[arg[u]][1].hdr = auth_header(result[t].tok)
    /\ Len(fetchLog[JwtObj]) = 1

\* C25 (a fetched token is returned as fetched).  In the step in which a
\* supplier call whose check found no usable cached token returns, the call
\* has invoked _new_token once, the TokenInfo it returns is the one _new_token
\* returned in that step and the one cached after it, for an installation
\* supplier the TokenInfo built from the requestor's answer of that step, and
\* the client installation_client builds gets that answer's token string;
\* this holds whatever the exp, also for exp = 1, which is expired at every
\* instant.  A token with exp = 1 is never returned from the cache: every call
\* that returned one has fetched it itself.
C25_ReturnedAsFetched ==
  /\ [](\A t \in Threads :
          (result[t].kind = "token" /\ result[t].tok.exp = 1) => result[t].n = 1)
  /\ [][\A t \in Threads :
          (result'[t] # result[t] /\ result'[t].kind = "token" /\ result'[t].n >= 1)
            => LET o == result'[t].obj
                   tok == result'[t].tok
               IN /\ result'[t].n = 1
                  /\ cached'[o] = tok
                  /\ Len(fetchLog'[o]) = Len(fetchLog[o]) + 1
                  /\ fetchLog'[o][Len(fetchLog'[o])].tok = tok
                  /\ o # JwtObj
                       => \E k \in DOMAIN reqLog'[arg[t]] :
                            LET data == reqLog'[arg[t]][k].resp
                            IN /\ reqLog[arg[t]][k].resp = NoResponse
                               /\ data.kind = "ok"
                               /\ tok = TokenInfo(data.expires_at.local
                                                    - data.expires_at.offset,
                                                  "token", data.token)
                               /\ installation_client(tok)
                                    = make_client(data.token, "None")]_vars

\* Two calls of installation_token for one id have each fetched and returned a
\* token with exp = 1, and the supplier has fetched twice.
C25_Witness ==
  \E t, u \in Threads :
    /\ t # u
    /\ result[t].kind = "token" /\ result[u].kind = "token"
    /\ result[t].obj = result[u].obj /\ result[t].obj # JwtObj
    /\ result[t].tok.exp = 1 /\ result[u].tok.exp = 1
    /\ result[t].n = 1 /\ result[u].n = 1
    /\ Len(fetchLog[result[t].obj]) = 2
    /\ installation_client(result[t].tok).login_or_token \in TokenStrings

\* The conditions of accept_event's checks for the request at hand: a required
\* header is missing (event.py:65), a secret is configured and no signature
\* header is set (event.py:67), the MIME type is blank or another one than
\* application/json (event.py:70-71).
Missing ==
  LET h == request.headers
  IN Falsy(h.event_name) \/ Falsy(h.delivery_id) \/ Falsy(h.user_agent)
       \/ Falsy(h.content_type)
Unsigned ==
  /\ request.webhook_secret # NoneStr
  /\ Falsy(request.headers.signature_1)
  /\ Falsy(request.headers.signature_256)
BlankType == get_mime_components(request.headers.content_type).raised # ""
OtherType ==
  \/ BlankType
  \/ get_mime_components(request.headers.content_type).mime_type # application_json

\* C26: no signature is to be verified, or the one check_signature call made
\* has returned.
C26_Verified ==
  \/ request.webhook_secret = NoneStr
  \/ Len(accepted.checks) = 1 /\ accepted.checks[1].raised = ""

\* C26: the exceptions of raw_body.decode(encoding) and json.loads.
C26_BodyErrors == {"UnicodeDecodeError", "LookupError", "JSONDecodeError"}

\* C26: the order of the checks, apart from the exception of the content type
\* check.
C26_OrderOfChecks ==
  /\ Missing => accepted.checks = <<>>
  /\ (~Missing /\ Unsigned) => accepted.raised = "InvalidRequest" /\ accepted.checks = <<>>
  /\ (~Missing /\ ~Unsigned /\ OtherType)
       => /\ accepted.checks = <<>>
          /\ accepted.raised \notin C26_BodyErrors \cup {"", "SignatureMismatchException",
                                                    "TypeError", "UnicodeEncodeError"}
  /\ (~Missing /\ ~Unsigned /\ ~OtherType /\ request.webhook_secret # NoneStr)
       => IF encode_ascii(request.webhook_secret).raised # ""
          THEN /\ accepted.raised = "UnicodeEncodeError"
               /\ accepted.checks = <<>>
          ELSE /\ Len(accepted.checks) = 1
               /\ accepted.checks[1].raised # ""
                    => accepted.raised = accepted.checks[1].raised
  /\ request.webhook_secret = NoneStr => accepted.checks = <<>>
  /\ accepted.raised \in C26_BodyErrors \cup {""}
       => ~Missing /\ ~Unsigned /\ ~OtherType /\ C26_Verified
  /\ (~Missing /\ ~Unsigned /\ ~OtherType /\ C26_Verified)
       => LET mime == get_mime_components(request.headers.content_type)
              text == decode(request.raw_body,
                             dict_get(mime.parameters, encoding_key, UTF8))
          IN IF text.raised # "" THEN accepted.raised = text.raised
             ELSE IF json_loads(text.value).raised # ""
             THEN accepted.raised = "JSONDecodeError"
             ELSE accepted.raised = ""

charset_key == <<"c", "h", "a", "r", "s", "e", "t">>

\* C27: the encoding a Content-Type value names: the value of its last parameter
\* called charset or encoding, or UTF-8 if it has none.
C27_NamedEncoding(content_type) ==
  LET parameters == get_mime_components(content_type).parameters
      named == {k \in DOMAIN parameters :
                  strip(parameters[k][1]) \in {charset_key, encoding_key}}
  IN IF named = {} THEN UTF8
     ELSE strip(parameters[CHOOSE k \in named : \A j \in named : j <= k][2])

\* C27 (body encoding).  A request that has passed the checks before the
\* decoding, whose MIME type is application/json whatever parameters follow
\* it, has its body decoded with the encoding its Content-Type names by a
\* charset or encoding parameter, with UTF-8 if there is none: accept_event
\* raises what decoding with that encoding raises, else what parsing the
\* decoded text raises, else returns the Event with the parsed payload; and
\* the parameters do not make the content type check fail.
C27_BodyEncoding ==
  (accepted # Pending /\ ~Missing /\ ~Unsigned)
    => /\ ~OtherType => accepted.raised \notin {"InvalidRequest", "ValueError"}
       /\ (~OtherType /\ C26_Verified)
            => LET text == decode(request.raw_body,
                                  C27_NamedEncoding(request.headers.content_type))
               IN IF text.raised # "" THEN accepted.raised = text.raised
                  ELSE IF json_loads(text.value).raised # ""
                  THEN accepted.raised = "JSONDecodeError"
                  ELSE /\ accepted.raised = ""
                       /\ accepted.event.payload = json_loads(text.value).value
====
